---- MODULE Spec2Model ----
(***************************************************************************)
(* Sensor data logger: a 128-entry circular buffer of timestamped          *)
(* accelerometer samples (src/src/sensor_logger.c) with its three          *)
(* operations init_sensor_logger, log_sensor_data and print_log.           *)
(*                                                                         *)
(* Representation.  A float acceleration is an integer number of           *)
(* micro-G (value * 10^6), which is exactly what "%.6f" prints of it; a     *)
(* timestamp is a natural number (TLC's integers end at 2^31 - 1, so the   *)
(* largest timestamp used is 2147483647, not UINT32_MAX).  A pointer to a  *)
(* sample is a record: NULL, or Ptr(s) for a sample s.                     *)
(***************************************************************************)
EXTENDS Integers, Sequences, FiniteSets, TLC

(* ------------------------------ constants ------------------------------ *)

\* sensor_logger.h:16  #define SENSOR_LOGGER_BUFFER_SIZE (128U)
SENSOR_LOGGER_BUFFER_SIZE == 128

\* "%.6f" in the format string of print_log: digits after the decimal point
FracDigits == 6

\* Bound of the model: valid appends since the last init_sensor_logger
\* (two full wraps of the buffer and a few more).
MaxAppends == 263

N == SENSOR_LOGGER_BUFFER_SIZE

Slots == 0 .. (SENSOR_LOGGER_BUFFER_SIZE - 1)

RECURSIVE Pow10(_)
Pow10(k) == IF k = 0 THEN 1 ELSE 10 * Pow10(k - 1)

\* one G in the integer representation of a float
G == Pow10(FracDigits)

Min(a, b) == IF a < b THEN a ELSE b

(* ------------------------------- samples ------------------------------- *)

\* sensor_sample_t
Sample(t, x, y, z) == [timestamp_ms |-> t, acc_x |-> x, acc_y |-> y, acc_z |-> z]

\* a slot after memset(..., 0, ...)
ZeroSample == Sample(0, 0, 0, 0)

NULL == [null |-> TRUE]

Ptr(s) == [null |-> FALSE, target |-> s]

(***************************************************************************)
(* The callers of the repository append the i-th sample (i = 0, 1, ...)    *)
(* of a loop; each stream below is one such loop.                          *)
(***************************************************************************)
Streams == {"ramp", "single", "ts_extremes", "acc_extremes", "mock"}

StreamSample(stream, i) ==
    CASE stream = "ramp" ->
            \* test_log_sensor_data_multiple_wraparounds: {i, i, 0.5 i, -0.5 i}
            Sample(i, i * G, i * (G \div 2), 0 - i * (G \div 2))
      [] stream = "single" ->
            \* test_single_sample: the same sample each time
            Sample(1000, 1 * G, 2 * G, 3 * G)
      [] stream = "ts_extremes" ->
            \* test_log_sensor_data_timestamp_extremes: s_zero, s_max, ...
            IF i % 2 = 0 THEN Sample(0, 1 * G, 2 * G, 3 * G)
                         ELSE Sample(2147483647, 0 - 1 * G, 0 - 2 * G, 0 - 3 * G)
      [] stream = "acc_extremes" ->
            \* test_log_sensor_data_acceleration_extremes: min, max, zero, ...
            CASE i % 3 = 0 -> Sample(123, 0 - 16 * G, 0 - 16 * G, 0 - 16 * G)
              [] i % 3 = 1 -> Sample(456, 16 * G, 16 * G, 16 * G)
              [] OTHER     -> Sample(789, 0, 0, 0)
      [] OTHER ->
            \* main: samples of the mock sensor; the clock advances every
            \* fourth sample, accelerations spread over [-16, +16] G
            Sample(1700000000 + (i \div 4),
                   (((i * 7) % 33) - 16) * G,
                   (((i * 5 + 3) % 33) - 16) * G + (i % 10) * (G \div 10),
                   (((i * 11 + 9) % 32) - 16) * G + 987654)

(* ------------------------------ formatting ----------------------------- *)

Digits == <<"0", "1", "2", "3", "4", "5", "6", "7", "8", "9">>

\* "%lu" of a natural number
RECURSIVE FormatUnsigned(_)
FormatUnsigned(n) ==
    IF n < 10 THEN Digits[n + 1]
              ELSE FormatUnsigned(n \div 10) \o Digits[(n % 10) + 1]

\* k decimal digits of n, zero padded on the left
RECURSIVE FormatPadded(_, _)
FormatPadded(n, k) ==
    IF k = 0 THEN "" ELSE FormatPadded(n \div 10, k - 1) \o Digits[(n % 10) + 1]

\* "%.6f" of a float held as micro-G
FormatFloat(v) ==
    LET a == IF v < 0 THEN 0 - v ELSE v
    IN  (IF v < 0 THEN "-" ELSE "")
        \o FormatUnsigned(a \div G) \o "." \o FormatPadded(a % G, FracDigits)

\* "%lu,%.6f,%.6f,%.6f\n" of (timestamp_ms, acc_x, acc_y, acc_z)
FormatLine(t, x, y, z) ==
    FormatUnsigned(t) \o "," \o FormatFloat(x) \o "," \o FormatFloat(y)
        \o "," \o FormatFloat(z) \o "\n"

(* -------------------------------- state -------------------------------- *)

VARIABLES
    gl_sensor_logger_buffer_U8a,       \* the N slots
    gl_sensor_logger_head_index_U32,   \* next write position
    gl_sensor_logger_entry_count_U32,  \* number of valid entries
    call,          \* the API call made last: "none", "init", "log", "log_null", "print"
    ret,           \* its return value
    printf_args,   \* the argument tuples it passed to LOG_PRINTF, in order
    out,           \* the lines it wrote to stdout, in order
    slots_read,    \* the buffer indices it read, in order
    stream,        \* the caller's loop since the last init
    hist,          \* the samples appended since the last init, in order
    index_arg,     \* the index passed to get_sensor_logger_buffer_entry
    entry_ptr,     \* the pointer it returned (NULL after any other call)
    \* two contexts sharing the store: a producer in log_sensor_data and a
    \* consumer in print_log
    lock,                  \* who is inside the critical region: "free" or a context
    producer_pc,           \* where the producer is in log_sensor_data
    consumer_pc,           \* where the consumer is in print_log
    l_current_index_U32,   \* locals of the consumer's print_log
    l_loop_index_U32,
    l_printed_chars_U32,
    hist_at_enter,             \* hist when the consumer last entered the region
    threads,                \* the threads that call get_mock_sensor_data
    bool_seeded_b,          \* _bool_seeded_b
    rand_state,             \* the state of the generator behind rand()
    srand_calls,            \* the calls of srand made so far
    clock,                  \* the wall clock: an index into ClockValues
    mock_calls,             \* the calls of get_mock_sensor_data begun so far
    mock_pc,                \* per thread: its position in get_mock_sensor_data
    l_mock_sensor_tv0_st,   \* per thread: the local of that name
    l_mock_sensor_tv_st,    \* per thread: the local of that name
    l_sample_st,            \* per thread: the local of that name
    clock_failed,           \* per thread: gettimeofday(&tv) failed in this call
    returned,               \* what the completed calls returned, in order
    main_pc,                \* the position of main ("none": main is not run)
    main_loop_index_U32,    \* l_loop_index_U32 of main
    main_sample_st,         \* l_sample_st of main
    main_trace,             \* the functions main has called, in order
    exit_status             \* what main returned (-1: it has not returned)

store == <<gl_sensor_logger_buffer_U8a, gl_sensor_logger_head_index_U32,
           gl_sensor_logger_entry_count_U32>>

vars == <<gl_sensor_logger_buffer_U8a, gl_sensor_logger_head_index_U32,
          gl_sensor_logger_entry_count_U32, call, ret, printf_args, out,
          slots_read, stream, hist, index_arg, entry_ptr,
          lock, producer_pc, consumer_pc, l_current_index_U32,
          l_loop_index_U32, l_printed_chars_U32, hist_at_enter,
          threads, bool_seeded_b, rand_state, srand_calls, clock, mock_calls,
          mock_pc, l_mock_sensor_tv0_st, l_mock_sensor_tv_st, l_sample_st,
          clock_failed, returned,
          main_pc, main_loop_index_U32, main_sample_st, main_trace,
          exit_status>>

main_vars == <<main_pc, main_loop_index_U32, main_sample_st, main_trace,
               exit_status>>

\* main is not run (the functions are called by the tests)
MainNotRun ==
    /\ main_pc = "none"
    /\ main_loop_index_U32 = 0
    /\ main_sample_st = ZeroSample
    /\ main_trace = << >>
    /\ exit_status = -1

mock_vars == <<threads, bool_seeded_b, rand_state, srand_calls, clock,
               mock_calls, mock_pc, l_mock_sensor_tv0_st, l_mock_sensor_tv_st,
               l_sample_st, clock_failed, returned>>

conc_vars == <<lock, producer_pc, consumer_pc, l_current_index_U32,
               l_loop_index_U32, l_printed_chars_U32, hist_at_enter>>

\* no context is inside a call
ContextsIdle ==
    /\ lock = "free"
    /\ producer_pc = "idle"
    /\ consumer_pc = "idle"
    /\ l_current_index_U32 = 0
    /\ l_loop_index_U32 = 0
    /\ l_printed_chars_U32 = 0
    /\ hist_at_enter = <<>>

\* static storage of sensor_logger.c: zero-initialised
\* struct timeval
Timeval(sec, usec) == [tv_sec |-> sec, tv_usec |-> usec]

\* a uint32_t that may exceed the integers of the checker: its two 16-bit
\* halves
U32(hi, lo) == [hi |-> hi, lo |-> lo]

\* get_mock_sensor_data is not called
SourceUnused ==
    /\ threads = {}
    /\ bool_seeded_b = FALSE
    /\ rand_state = 1
    /\ srand_calls = 0
    /\ clock = 1
    /\ mock_calls = 0
    /\ mock_pc = << >>
    /\ l_mock_sensor_tv0_st = << >>
    /\ l_mock_sensor_tv_st = << >>
    /\ l_sample_st = << >>
    /\ clock_failed = << >>
    /\ returned = << >>

Init ==
    /\ gl_sensor_logger_buffer_U8a = [i \in Slots |-> ZeroSample]
    /\ gl_sensor_logger_head_index_U32 = 0
    /\ gl_sensor_logger_entry_count_U32 = 0
    /\ call = "none"
    /\ ret = 0
    /\ printf_args = <<>>
    /\ out = <<>>
    /\ slots_read = <<>>
    /\ stream \in Streams
    /\ hist = <<>>
    /\ index_arg = 0
    /\ entry_ptr = NULL
    /\ ContextsIdle
    /\ SourceUnused
    /\ MainNotRun

(* ----------------------------- operations ------------------------------ *)

\* (a bug: the indices are reset, the slots are not cleared)
init_sensor_logger_NoMemset ==
    /\ gl_sensor_logger_head_index_U32' = 0
    /\ gl_sensor_logger_entry_count_U32' = 0
    /\ UNCHANGED gl_sensor_logger_buffer_U8a
    /\ ret' = 0
    /\ printf_args' = <<>>
    /\ out' = <<>>
    /\ slots_read' = <<>>

\* (a bug: the count is reset, the head is not)
init_sensor_logger_KeepsHead ==
    /\ UNCHANGED gl_sensor_logger_head_index_U32
    /\ gl_sensor_logger_entry_count_U32' = 0
    /\ gl_sensor_logger_buffer_U8a' = [i \in Slots |-> ZeroSample]
    /\ ret' = 0
    /\ printf_args' = <<>>
    /\ out' = <<>>
    /\ slots_read' = <<>>

init_sensor_logger ==
    /\ gl_sensor_logger_head_index_U32' = 0
    /\ gl_sensor_logger_entry_count_U32' = 0
    /\ gl_sensor_logger_buffer_U8a' = [i \in Slots |-> ZeroSample]
    /\ ret' = 0
    /\ printf_args' = <<>>
    /\ out' = <<>>
    /\ slots_read' = <<>>

\* (a bug: the head wraps one slot early)
AdvanceHead_WrapsEarly(head) == (head + 1) % (SENSOR_LOGGER_BUFFER_SIZE - 1)

\* head = (head + 1U) % SENSOR_LOGGER_BUFFER_SIZE
AdvanceHead(head) == (head + 1) % SENSOR_LOGGER_BUFFER_SIZE

\* (a bug: the count is not capped)
IncreaseCount_Unbounded(count) == count + 1

\* if (count < SENSOR_LOGGER_BUFFER_SIZE) count++
IncreaseCount(count) ==
    IF count < SENSOR_LOGGER_BUFFER_SIZE THEN count + 1 ELSE count

\* (a bug: the NULL check comes after the head was advanced)
log_sensor_data_NullAdvancesHead(p_sample_ptr) ==
    /\ printf_args' = <<>>
    /\ out' = <<>>
    /\ slots_read' = <<>>
    /\ gl_sensor_logger_head_index_U32' =
          AdvanceHead(gl_sensor_logger_head_index_U32)
    /\ IF p_sample_ptr.null
       THEN /\ ret' = -1
            /\ UNCHANGED <<gl_sensor_logger_buffer_U8a,
                           gl_sensor_logger_entry_count_U32>>
       ELSE /\ gl_sensor_logger_buffer_U8a' =
                  [gl_sensor_logger_buffer_U8a
                     EXCEPT ![gl_sensor_logger_head_index_U32] = p_sample_ptr.target]
            /\ gl_sensor_logger_entry_count_U32' =
                  IncreaseCount(gl_sensor_logger_entry_count_U32)
            /\ ret' = 0

\* (a bug: the head is advanced before the write)
log_sensor_data_AdvancesBeforeWrite(p_sample_ptr) ==
    /\ printf_args' = <<>>
    /\ out' = <<>>
    /\ slots_read' = <<>>
    /\ IF p_sample_ptr.null
       THEN /\ ret' = -1
            /\ UNCHANGED store
       ELSE /\ gl_sensor_logger_head_index_U32' =
                  AdvanceHead(gl_sensor_logger_head_index_U32)
            /\ gl_sensor_logger_buffer_U8a' =
                  [gl_sensor_logger_buffer_U8a
                     EXCEPT ![gl_sensor_logger_head_index_U32'] = p_sample_ptr.target]
            /\ gl_sensor_logger_entry_count_U32' =
                  IncreaseCount(gl_sensor_logger_entry_count_U32)
            /\ ret' = 0

log_sensor_data(p_sample_ptr) ==
    /\ printf_args' = <<>>
    /\ out' = <<>>
    /\ slots_read' = <<>>
    /\ IF p_sample_ptr.null
       THEN /\ ret' = -1
            /\ UNCHANGED store
       ELSE /\ gl_sensor_logger_buffer_U8a' =
                  [gl_sensor_logger_buffer_U8a
                     EXCEPT ![gl_sensor_logger_head_index_U32] = p_sample_ptr.target]
            /\ gl_sensor_logger_head_index_U32' =
                  AdvanceHead(gl_sensor_logger_head_index_U32)
            /\ gl_sensor_logger_entry_count_U32' =
                  IncreaseCount(gl_sensor_logger_entry_count_U32)
            /\ ret' = 0

\* (a bug: the start index ignores the wrap)
StartIndex_AlwaysZero(count, head) == 0

\* (a bug: the start index of a full buffer is one past the oldest entry)
StartIndex_OnePastHead(count, head) ==
    IF count < SENSOR_LOGGER_BUFFER_SIZE THEN 0 ELSE head + 1

\* "Determine start index": 0 while the buffer is not full, head once it is
StartIndex(count, head) ==
    IF count < SENSOR_LOGGER_BUFFER_SIZE THEN 0 ELSE head

\* l_actual_buffer_index_U32
ActualBufferIndex(l_current_index, l_loop_index) ==
    (l_current_index + l_loop_index) % SENSOR_LOGGER_BUFFER_SIZE

\* (a bug: the loop runs while l_loop_index <= count)
LoopBound_Inclusive(count) == count + 1

\* the loop of print_log runs while l_loop_index < this
LoopBound(count) == count

\* (a bug: acc_x and acc_y are passed in the wrong order)
PrintfArgs_AxesSwapped(entry) ==
    <<entry.timestamp_ms, entry.acc_y, entry.acc_x, entry.acc_z>>

\* the arguments print_log passes to LOG_PRINTF for one entry, in order
PrintfArgs(entry) ==
    <<entry.timestamp_ms, entry.acc_x, entry.acc_y, entry.acc_z>>

\* LOG_PRINTF("%lu,%.6f,%.6f,%.6f\n", ...): the text written to stdout
LOG_PRINTF(args) == FormatLine(args[1], args[2], args[3], args[4])

\* the buffer index read in each iteration of the loop of print_log
LoopSlots(l_current_index, bound) ==
    [k \in 1 .. bound |-> ActualBufferIndex(l_current_index, k - 1)]

\* l_printed_chars_U32 after the iterations lo .. hi of the loop: the sum of
\* the LOG_PRINTF return values that are > 0 (summed by halves, which keeps
\* the evaluation shallow; the sum is the same in any order)
RECURSIVE PrintedChars(_, _, _)
PrintedChars(lines, lo, hi) ==
    IF lo > hi THEN 0
    ELSE IF lo = hi
         THEN (IF Len(lines[lo]) > 0 THEN Len(lines[lo]) ELSE 0)
         ELSE PrintedChars(lines, lo, (lo + hi) \div 2)
                 + PrintedChars(lines, ((lo + hi) \div 2) + 1, hi)

\* (a bug: an empty store is reported as an error)
print_log_EmptyIsError ==
    /\ UNCHANGED store
    /\ IF gl_sensor_logger_entry_count_U32 = 0
       THEN /\ ret' = -1
            /\ printf_args' = <<>>
            /\ out' = <<>>
            /\ slots_read' = <<>>
       ELSE /\ slots_read' =
                  LoopSlots(StartIndex(gl_sensor_logger_entry_count_U32,
                                       gl_sensor_logger_head_index_U32),
                            LoopBound(gl_sensor_logger_entry_count_U32))
            /\ printf_args' =
                  [k \in DOMAIN slots_read' |->
                      PrintfArgs(gl_sensor_logger_buffer_U8a[slots_read'[k]])]
            /\ out' = [k \in DOMAIN printf_args' |-> LOG_PRINTF(printf_args'[k])]
            /\ ret' = PrintedChars(out', 1, Len(out'))

\* (a bug: printing consumes the entries)
print_log_Consumes ==
    /\ UNCHANGED <<gl_sensor_logger_buffer_U8a, gl_sensor_logger_head_index_U32>>
    /\ gl_sensor_logger_entry_count_U32' = 0
    /\ IF gl_sensor_logger_entry_count_U32 = 0
       THEN /\ ret' = 0
            /\ printf_args' = <<>>
            /\ out' = <<>>
            /\ slots_read' = <<>>
       ELSE /\ slots_read' =
                  LoopSlots(StartIndex(gl_sensor_logger_entry_count_U32,
                                       gl_sensor_logger_head_index_U32),
                            LoopBound(gl_sensor_logger_entry_count_U32))
            /\ printf_args' =
                  [k \in DOMAIN slots_read' |->
                      PrintfArgs(gl_sensor_logger_buffer_U8a[slots_read'[k]])]
            /\ out' = [k \in DOMAIN printf_args' |-> LOG_PRINTF(printf_args'[k])]
            /\ ret' = PrintedChars(out', 1, Len(out'))

print_log ==
    /\ UNCHANGED store
    /\ IF gl_sensor_logger_entry_count_U32 = 0
       THEN /\ ret' = 0
            /\ printf_args' = <<>>
            /\ out' = <<>>
            /\ slots_read' = <<>>
       ELSE /\ slots_read' =
                  LoopSlots(StartIndex(gl_sensor_logger_entry_count_U32,
                                       gl_sensor_logger_head_index_U32),
                            LoopBound(gl_sensor_logger_entry_count_U32))
            /\ printf_args' =
                  [k \in DOMAIN slots_read' |->
                      PrintfArgs(gl_sensor_logger_buffer_U8a[slots_read'[k]])]
            /\ out' = [k \in DOMAIN printf_args' |-> LOG_PRINTF(printf_args'[k])]
            /\ ret' = PrintedChars(out', 1, Len(out'))

\* a pointer to slot i of the buffer
SlotPtr(i) == [null |-> FALSE, slot |-> i]

\* (a bug: the bounds check lets index N through)
get_sensor_logger_buffer_entry_OffByOne(index) ==
    /\ entry_ptr' = IF index <= SENSOR_LOGGER_BUFFER_SIZE
                    THEN SlotPtr(index) ELSE NULL
    /\ UNCHANGED store

get_sensor_logger_buffer_entry(index) ==
    /\ entry_ptr' = IF index < SENSOR_LOGGER_BUFFER_SIZE
                    THEN SlotPtr(index) ELSE NULL
    /\ UNCHANGED store

(* ------------------------- calls of the program ------------------------ *)

\* a call other than get_sensor_logger_buffer_entry returns no pointer
NoEntryReturned == index_arg' = 0 /\ entry_ptr' = NULL

\* a call made by the one thread of the tests
SingleThreaded == UNCHANGED <<conc_vars, mock_vars, main_vars>>

CallInit ==
    /\ init_sensor_logger
    /\ call' = "init"
    /\ stream' \in Streams
    /\ hist' = <<>>
    /\ NoEntryReturned
    /\ SingleThreaded

CallLog ==
    /\ Len(hist) < MaxAppends
    /\ \E s \in {StreamSample(stream, Len(hist))} :
          /\ log_sensor_data(Ptr(s))
          /\ hist' = Append(hist, s)
    /\ call' = "log"
    /\ NoEntryReturned
    /\ SingleThreaded
    /\ UNCHANGED stream

CallLogNull ==
    /\ log_sensor_data(NULL)
    /\ call' = "log_null"
    /\ NoEntryReturned
    /\ SingleThreaded
    /\ UNCHANGED <<stream, hist>>

CallPrint ==
    /\ print_log
    /\ call' = "print"
    /\ NoEntryReturned
    /\ SingleThreaded
    /\ UNCHANGED <<stream, hist>>

Next == CallInit \/ CallLog \/ CallLogNull \/ CallPrint

Spec == Init /\ [][Next]_vars

(***************************************************************************)
(* The test build (UNITY_TESTING) adds the accessors; the calls of the     *)
(* tests are those above and get_sensor_logger_buffer_entry.               *)
(***************************************************************************)

\* the uint32_t indices the accessor is called with
EntryIndices == {0, 127, 128, 129, 2147483647}

CallGetEntry ==
    /\ \E index \in EntryIndices :
          /\ get_sensor_logger_buffer_entry(index)
          /\ index_arg' = index
    /\ call' = "get_entry"
    /\ ret' = 0
    /\ printf_args' = <<>>
    /\ out' = <<>>
    /\ slots_read' = <<>>
    /\ SingleThreaded
    /\ UNCHANGED <<stream, hist>>

NextTestBuild == CallInit \/ CallLog \/ CallLogNull \/ CallPrint \/ CallGetEntry

SpecTestBuild == Init /\ [][NextTestBuild]_vars

(***************************************************************************)
(* Two contexts.  ENTER_CRITICAL / EXIT_CRITICAL are overridable macros    *)
(* (empty by default); here they are overridden by one mutual-exclusion    *)
(* region.  A producer calls log_sensor_data and a consumer calls          *)
(* print_log, one statement per step.  The store starts as a number of     *)
(* appends of the sequential program have left it.                         *)
(***************************************************************************)

\* Bound of the model: appends the producer makes beyond the fullest
\* starting store
MaxProducerAppends == 3

\* the appends made before the two contexts start
AppendsBefore == {0, N - 1, N + 3}

\* the store after log_sensor_data(&s)
AfterAppend(st, s) ==
    [buffer |-> [st.buffer EXCEPT ![st.head] = s],
     head   |-> AdvanceHead(st.head),
     count  |-> IncreaseCount(st.count)]

\* the store st after the appends of the samples number lo .. hi - 1 of a
\* stream (applied in order, by halves)
RECURSIVE AfterAppends(_, _, _, _)
AfterAppends(st, strm, lo, hi) ==
    IF lo >= hi THEN st
    ELSE IF lo + 1 = hi
         THEN AfterAppend(st, StreamSample(strm, lo))
         ELSE LET half == AfterAppends(st, strm, lo, (lo + hi) \div 2)
              IN  IF half.count > 0
                  THEN AfterAppends(half, strm, (lo + hi) \div 2, hi)
                  ELSE half

\* the store after init_sensor_logger
InitialStore == [buffer |-> [i \in Slots |-> ZeroSample], head |-> 0, count |-> 0]

\* (the default macro: nothing is excluded)
ENTER_CRITICAL_Empty(context) == UNCHANGED lock

\* ENTER_CRITICAL(), as a mutual-exclusion region
ENTER_CRITICAL(context) == lock = "free" /\ lock' = context

\* EXIT_CRITICAL()
EXIT_CRITICAL(context) == lock' = "free"

ConcInit ==
    /\ stream = "ramp"
    /\ \E m \in AppendsBefore :
          LET st == AfterAppends(InitialStore, stream, 0, m)
          IN  /\ gl_sensor_logger_buffer_U8a = st.buffer
              /\ gl_sensor_logger_head_index_U32 = st.head
              /\ gl_sensor_logger_entry_count_U32 = st.count
              /\ hist = [i \in 1 .. m |-> StreamSample(stream, i - 1)]
    /\ call = "none"
    /\ ret = 0
    /\ printf_args = <<>>
    /\ out = <<>>
    /\ slots_read = <<>>
    /\ index_arg = 0
    /\ entry_ptr = NULL
    /\ ContextsIdle
    /\ SourceUnused
    /\ MainNotRun

consumer_vars == <<consumer_pc, l_current_index_U32, l_loop_index_U32,
                   l_printed_chars_U32, hist_at_enter, call, ret, printf_args,
                   out, slots_read>>

(* ---- the producer: log_sensor_data(&sample), a sample never NULL ---- *)

ProducerCall ==
    /\ producer_pc = "idle"
    /\ Len(hist) < (N + 3) + MaxProducerAppends
    /\ producer_pc' = "enter"
    /\ UNCHANGED <<store, hist, stream, lock, consumer_vars, index_arg, entry_ptr, mock_vars, main_vars>>

ProducerEnter ==
    /\ producer_pc = "enter"
    /\ ENTER_CRITICAL("producer")
    /\ producer_pc' = "write"
    /\ UNCHANGED <<store, hist, stream, consumer_vars, index_arg, entry_ptr, mock_vars, main_vars>>

ProducerWrite ==
    /\ producer_pc = "write"
    /\ gl_sensor_logger_buffer_U8a' =
          [gl_sensor_logger_buffer_U8a
             EXCEPT ![gl_sensor_logger_head_index_U32] =
                        StreamSample(stream, Len(hist))]
    /\ producer_pc' = "advance"
    /\ UNCHANGED <<gl_sensor_logger_head_index_U32,
                   gl_sensor_logger_entry_count_U32, hist, stream, lock,
                   consumer_vars, index_arg, entry_ptr, mock_vars, main_vars>>

ProducerAdvance ==
    /\ producer_pc = "advance"
    /\ gl_sensor_logger_head_index_U32' =
          AdvanceHead(gl_sensor_logger_head_index_U32)
    /\ producer_pc' = "count"
    /\ UNCHANGED <<gl_sensor_logger_buffer_U8a,
                   gl_sensor_logger_entry_count_U32, hist, stream, lock,
                   consumer_vars, index_arg, entry_ptr, mock_vars, main_vars>>

ProducerCount ==
    /\ producer_pc = "count"
    /\ gl_sensor_logger_entry_count_U32' =
          IncreaseCount(gl_sensor_logger_entry_count_U32)
    /\ producer_pc' = "exit"
    /\ UNCHANGED <<gl_sensor_logger_buffer_U8a,
                   gl_sensor_logger_head_index_U32, hist, stream, lock,
                   consumer_vars, index_arg, entry_ptr, mock_vars, main_vars>>

\* EXIT_CRITICAL(); return 0: the append is complete
ProducerExit ==
    /\ producer_pc = "exit"
    /\ EXIT_CRITICAL("producer")
    /\ hist' = Append(hist, StreamSample(stream, Len(hist)))
    /\ producer_pc' = "idle"
    /\ UNCHANGED <<store, stream, consumer_vars, index_arg, entry_ptr, mock_vars, main_vars>>

\* log_sensor_data(NULL): if (p_sample_ptr == NULL)
ProducerCallNull ==
    /\ producer_pc = "idle"
    /\ producer_pc' = "return_error"
    /\ UNCHANGED <<store, hist, stream, lock, consumer_vars, index_arg, entry_ptr, mock_vars, main_vars>>

\* return -1
ProducerReturnError ==
    /\ producer_pc = "return_error"
    /\ producer_pc' = "idle"
    /\ UNCHANGED <<store, hist, stream, lock, consumer_vars, index_arg, entry_ptr, mock_vars, main_vars>>

(* ---- the producer context may also call init_sensor_logger() ---- *)

ResetCall ==
    /\ producer_pc = "idle"
    /\ Len(hist) > 0
    /\ producer_pc' = "init_enter"
    /\ UNCHANGED <<store, hist, stream, lock, consumer_vars, index_arg, entry_ptr, mock_vars, main_vars>>

ResetEnter ==
    /\ producer_pc = "init_enter"
    /\ ENTER_CRITICAL("producer")
    /\ producer_pc' = "init_head"
    /\ UNCHANGED <<store, hist, stream, consumer_vars, index_arg, entry_ptr, mock_vars, main_vars>>

ResetHead ==
    /\ producer_pc = "init_head"
    /\ gl_sensor_logger_head_index_U32' = 0
    /\ producer_pc' = "init_count"
    /\ UNCHANGED <<gl_sensor_logger_buffer_U8a,
                   gl_sensor_logger_entry_count_U32, hist, stream, lock,
                   consumer_vars, index_arg, entry_ptr, mock_vars, main_vars>>

ResetCount ==
    /\ producer_pc = "init_count"
    /\ gl_sensor_logger_entry_count_U32' = 0
    /\ producer_pc' = "init_memset"
    /\ UNCHANGED <<gl_sensor_logger_buffer_U8a,
                   gl_sensor_logger_head_index_U32, hist, stream, lock,
                   consumer_vars, index_arg, entry_ptr, mock_vars, main_vars>>

ResetMemset ==
    /\ producer_pc = "init_memset"
    /\ gl_sensor_logger_buffer_U8a' = [i \in Slots |-> ZeroSample]
    /\ producer_pc' = "init_exit"
    /\ UNCHANGED <<gl_sensor_logger_head_index_U32,
                   gl_sensor_logger_entry_count_U32, hist, stream, lock,
                   consumer_vars, index_arg, entry_ptr, mock_vars, main_vars>>

\* EXIT_CRITICAL(); return 0: the reset is complete
ResetExit ==
    /\ producer_pc = "init_exit"
    /\ EXIT_CRITICAL("producer")
    /\ hist' = <<>>
    /\ producer_pc' = "idle"
    /\ UNCHANGED <<store, stream, consumer_vars, index_arg, entry_ptr, mock_vars, main_vars>>

(* ------------------------ the consumer: print_log() ------------------- *)

ConsumerCall ==
    /\ consumer_pc = "idle"
    /\ consumer_pc' = "enter"
    /\ l_printed_chars_U32' = 0
    /\ l_current_index_U32' = 0
    /\ l_loop_index_U32' = 0
    /\ call' = "printing"
    /\ ret' = 0
    /\ printf_args' = <<>>
    /\ out' = <<>>
    /\ slots_read' = <<>>
    /\ UNCHANGED <<store, hist, stream, lock, producer_pc, hist_at_enter,
                   index_arg, entry_ptr, mock_vars, main_vars>>

ConsumerEnter ==
    /\ consumer_pc = "enter"
    /\ ENTER_CRITICAL("consumer")
    /\ hist_at_enter' = hist
    /\ consumer_pc' = "check"
    /\ UNCHANGED <<store, hist, stream, producer_pc, l_current_index_U32,
                   l_loop_index_U32, l_printed_chars_U32, call, ret,
                   printf_args, out, slots_read, index_arg, entry_ptr, mock_vars, main_vars>>

\* (a bug: the early return of an empty store leaves the region entered)
ConsumerCheckEmpty_ReturnsInside ==
    /\ consumer_pc = "check"
    /\ IF gl_sensor_logger_entry_count_U32 = 0
       THEN /\ ret' = 0
            /\ call' = "print"
            /\ consumer_pc' = "idle"
            /\ UNCHANGED lock
       ELSE /\ consumer_pc' = "start"
            /\ UNCHANGED <<lock, ret, call>>
    /\ UNCHANGED <<store, hist, stream, producer_pc, l_current_index_U32,
                   l_loop_index_U32, l_printed_chars_U32, hist_at_enter,
                   printf_args, out, slots_read, index_arg, entry_ptr, mock_vars, main_vars>>

\* if (count == 0U) { EXIT_CRITICAL(); return 0; }
ConsumerCheckEmpty ==
    /\ consumer_pc = "check"
    /\ IF gl_sensor_logger_entry_count_U32 = 0
       THEN /\ EXIT_CRITICAL("consumer")
            /\ ret' = 0
            /\ call' = "print"
            /\ consumer_pc' = "idle"
       ELSE /\ consumer_pc' = "start"
            /\ UNCHANGED <<lock, ret, call>>
    /\ UNCHANGED <<store, hist, stream, producer_pc, l_current_index_U32,
                   l_loop_index_U32, l_printed_chars_U32, hist_at_enter,
                   printf_args, out, slots_read, index_arg, entry_ptr, mock_vars, main_vars>>

ConsumerStartIndex ==
    /\ consumer_pc = "start"
    /\ l_current_index_U32' = StartIndex(gl_sensor_logger_entry_count_U32,
                                         gl_sensor_logger_head_index_U32)
    /\ l_loop_index_U32' = 0
    /\ consumer_pc' = "loop"
    /\ UNCHANGED <<store, hist, stream, lock, producer_pc,
                   l_printed_chars_U32, hist_at_enter, call, ret, printf_args,
                   out, slots_read, index_arg, entry_ptr, mock_vars, main_vars>>

\* one test of the loop condition and, if it holds, one iteration
ConsumerLoop ==
    /\ consumer_pc = "loop"
    /\ IF l_loop_index_U32 < LoopBound(gl_sensor_logger_entry_count_U32)
       THEN LET index == ActualBufferIndex(l_current_index_U32, l_loop_index_U32)
                args  == PrintfArgs(gl_sensor_logger_buffer_U8a[index])
            IN  /\ slots_read' = Append(slots_read, index)
                /\ printf_args' = Append(printf_args, args)
                /\ out' = Append(out, LOG_PRINTF(args))
                /\ l_printed_chars_U32' =
                      l_printed_chars_U32 + PrintedChars(out', Len(out'), Len(out'))
                /\ l_loop_index_U32' = l_loop_index_U32 + 1
                /\ UNCHANGED consumer_pc
       ELSE /\ consumer_pc' = "exit"
            /\ UNCHANGED <<slots_read, printf_args, out, l_printed_chars_U32,
                           l_loop_index_U32>>
    /\ UNCHANGED <<store, hist, stream, lock, producer_pc,
                   l_current_index_U32, hist_at_enter, call, ret, index_arg,
                   entry_ptr, mock_vars, main_vars>>

\* EXIT_CRITICAL(); fflush(stdout); return (int)l_printed_chars_U32
ConsumerExit ==
    /\ consumer_pc = "exit"
    /\ EXIT_CRITICAL("consumer")
    /\ ret' = l_printed_chars_U32
    /\ call' = "print"
    /\ consumer_pc' = "idle"
    /\ UNCHANGED <<store, hist, stream, producer_pc, l_current_index_U32,
                   l_loop_index_U32, l_printed_chars_U32, hist_at_enter,
                   printf_args, out, slots_read, index_arg, entry_ptr, mock_vars, main_vars>>

ConcNext ==
    \/ ProducerCall \/ ProducerEnter \/ ProducerWrite \/ ProducerAdvance
    \/ ProducerCount \/ ProducerExit
    \/ ProducerCallNull \/ ProducerReturnError
    \/ ResetCall \/ ResetEnter \/ ResetHead \/ ResetCount \/ ResetMemset
    \/ ResetExit
    \/ ConsumerCall \/ ConsumerEnter \/ ConsumerCheckEmpty
    \/ ConsumerStartIndex \/ ConsumerLoop \/ ConsumerExit

SpecConc == ConcInit /\ [][ConcNext]_vars

(***************************************************************************)
(* mock_sensor.c: get_mock_sensor_data, one statement group per step, for  *)
(* the threads chosen at the start.                                        *)
(***************************************************************************)

\* Bound of the model: calls of get_mock_sensor_data
MaxMockCalls == 3

MOCK_SENSOR_MS_PER_SEC_U32 == 1000

RAND_MAX == 2147483647

\* FLT_MANT_DIG of float
FloatSignificandBits == 24

Half == 65536

Max(a, b) == IF a > b THEN a ELSE b

\* the values the wall clock takes, in order (it never goes backwards)
ClockValues ==
    << Timeval(1000, 500000),
       Timeval(4294967, 295999),
       Timeval(1717986918, 399999),
       Timeval(1717986918, 400000),
       Timeval(1717986918, 400999),
       Timeval(1717986919, 0) >>

\* the values rand() returns, in the order of the generator's cycle
RandValues ==
    << 0, 1, 32, 33, 96, 16777217, 1073741823, 1073741824,
       2147483583, 2147483584, 2147483646, RAND_MAX >>

\* a ^ b on unsigned values
RECURSIVE Xor(_, _)
Xor(a, b) ==
    IF a = 0 THEN b
    ELSE IF b = 0 THEN a
    ELSE 2 * Xor(a \div 2, b \div 2) + ((a + b) % 2)

\* srand(seed)
srand(seed) == seed % Len(RandValues)

\* rand(): the k-th next value, and the state after k values
rand(state, k) == RandValues[((state + k) % Len(RandValues)) + 1]
AfterRand(state, k) == (state + k) % Len(RandValues)

\* sec * 1000 + usec / 1000 as an unbounded number: its 16-bit limbs, lowest
\* first
Milliseconds(sec, usec) ==
    LET lo  == ((sec % Half) * MOCK_SENSOR_MS_PER_SEC_U32)
                  + (usec \div MOCK_SENSOR_MS_PER_SEC_U32)
        mid == ((sec \div Half) * MOCK_SENSOR_MS_PER_SEC_U32) + (lo \div Half)
    IN  << lo % Half, mid % Half, mid \div Half >>

\* (uint32_t)(...): the low 32 bits
CastU32(limbs) == U32(limbs[2], limbs[1])

\* (uint32_t)(((uint32_t)tv_sec * 1000UL) + ((uint32_t)tv_usec / 1000UL))
TimestampMs(tv) == CastU32(Milliseconds(tv.tv_sec, tv.tv_usec))

(* ---- float: a value m * 2^e with |m| <= 2^24 ---- *)

Float(m, e) == [m |-> m, e |-> e]

RECURSIVE BitLength(_)
BitLength(n) == IF n = 0 THEN 0 ELSE 1 + BitLength(n \div 2)

Abs(n) == IF n < 0 THEN 0 - n ELSE n

\* n / 2^sh rounded to nearest, ties to even (n >= 0)
RoundShift(n, sh) ==
    LET q    == n \div (2 ^ sh)
        rem  == n % (2 ^ sh)
        half == IF sh = 0 THEN 0 ELSE 2 ^ (sh - 1)
    IN  IF sh > 0 /\ (rem > half \/ (rem = half /\ q % 2 = 1)) THEN q + 1 ELSE q

\* the float nearest to n * 2^e
RoundToFloat(n, e) ==
    LET sh == Max(BitLength(Abs(n)) - FloatSignificandBits, 0)
        m  == RoundShift(Abs(n), sh)
    IN  Float(IF n < 0 THEN 0 - m ELSE m, e + sh)

\* (float)i for an int
IntToFloat(i) == RoundToFloat(i, 0)

\* a / b for b a power of two, as (float)RAND_MAX is: exact
FloatDiv(a, b) == Float(a.m, a.e - (b.e + (BitLength(b.m) - 1)))

\* a * 32.0f: exact
FloatMul32(a) == Float(a.m, a.e + 5)

\* a - 16.0f for a in [0, 32] with a.e <= 4, rounded
FloatSub16(a) == RoundToFloat(a.m - 2 ^ (4 - a.e), a.e)

\* (l_normalized_f * 32.0f) - 16.0f with
\* l_normalized_f = (float)rand() / (float)RAND_MAX
AxisValue_NoOffset(r) == FloatMul32(FloatDiv(IntToFloat(r), IntToFloat(RAND_MAX)))

AxisValue(r) ==
    FloatSub16(FloatMul32(FloatDiv(IntToFloat(r), IntToFloat(RAND_MAX))))

\* a float of magnitude at most 32, in units of 2^-26
Scaled(f) == f.m * (2 ^ (f.e + 26))
Sixteen == 2 ^ 30

(* ---- the steps of get_mock_sensor_data in thread t ---- *)

logger_vars == <<gl_sensor_logger_buffer_U8a, gl_sensor_logger_head_index_U32,
                 gl_sensor_logger_entry_count_U32, call, ret, printf_args,
                 out, slots_read, stream, hist, index_arg, entry_ptr,
                 conc_vars>>

ZeroTimeval == Timeval(0, 0)

\* gettimeofday(&tv, NULL) with the clock at c: 0 and the time in tv, or -1
\* and tv untouched
gettimeofday(tv, c, ok) == IF ok THEN ClockValues[c] ELSE tv

MockInit(T, c) ==
    /\ threads = T
    /\ bool_seeded_b = FALSE
    /\ rand_state = 1
    /\ srand_calls = 0
    /\ clock = c
    /\ mock_calls = 0
    /\ mock_pc = [t \in T |-> "idle"]
    /\ l_mock_sensor_tv0_st = [t \in T |-> ZeroTimeval]
    /\ l_mock_sensor_tv_st = [t \in T |-> ZeroTimeval]
    /\ l_sample_st = [t \in T |-> Sample(U32(0, 0), Float(0, 0), Float(0, 0), Float(0, 0))]
    /\ clock_failed = [t \in T |-> FALSE]
    /\ returned = << >>
    /\ gl_sensor_logger_buffer_U8a = [i \in Slots |-> ZeroSample]
    /\ gl_sensor_logger_head_index_U32 = 0
    /\ gl_sensor_logger_entry_count_U32 = 0
    /\ call = "none"
    /\ ret = 0
    /\ printf_args = <<>>
    /\ out = <<>>
    /\ slots_read = <<>>
    /\ stream = "mock"
    /\ hist = <<>>
    /\ index_arg = 0
    /\ entry_ptr = NULL
    /\ ContextsIdle
    /\ MainNotRun

\* the wall clock advances
ClockTick ==
    /\ clock < Len(ClockValues)
    /\ clock' = clock + 1
    /\ UNCHANGED <<logger_vars, main_vars, threads, bool_seeded_b, rand_state,
                   srand_calls, mock_calls, mock_pc, l_mock_sensor_tv0_st,
                   l_mock_sensor_tv_st, l_sample_st, clock_failed, returned>>

\* the call, its locals, and the test if (_bool_seeded_b == false)
MockCall(t) ==
    /\ mock_pc[t] = "idle"
    /\ mock_calls < MaxMockCalls
    /\ mock_calls' = mock_calls + 1
    /\ l_mock_sensor_tv0_st' = [l_mock_sensor_tv0_st EXCEPT ![t] = ZeroTimeval]
    /\ l_mock_sensor_tv_st' = [l_mock_sensor_tv_st EXCEPT ![t] = ZeroTimeval]
    /\ l_sample_st' = [l_sample_st EXCEPT
                          ![t] = Sample(U32(0, 0), Float(0, 0), Float(0, 0), Float(0, 0))]
    /\ clock_failed' = [clock_failed EXCEPT ![t] = FALSE]
    /\ mock_pc' = [mock_pc EXCEPT ![t] = IF bool_seeded_b = FALSE THEN "seed" ELSE "stamp"]
    /\ UNCHANGED <<logger_vars, main_vars, threads, bool_seeded_b, rand_state,
                   srand_calls, clock, returned>>

\* (void)gettimeofday(&tv0, NULL); srand(tv0.tv_sec ^ tv0.tv_usec)
MockSeed(t) ==
    /\ mock_pc[t] = "seed"
    /\ \E ok \in BOOLEAN :
          LET tv0 == gettimeofday(l_mock_sensor_tv0_st[t], clock, ok)
          IN  /\ l_mock_sensor_tv0_st' = [l_mock_sensor_tv0_st EXCEPT ![t] = tv0]
              /\ rand_state' = srand(Xor(tv0.tv_sec, tv0.tv_usec))
    /\ srand_calls' = srand_calls + 1
    /\ mock_pc' = [mock_pc EXCEPT ![t] = "set"]
    /\ UNCHANGED <<logger_vars, main_vars, threads, bool_seeded_b, clock, mock_calls,
                   l_mock_sensor_tv_st, l_sample_st, clock_failed, returned>>

\* (the flag is never set)
MockSetSeeded_Forgets(t) ==
    /\ mock_pc[t] = "set"
    /\ mock_pc' = [mock_pc EXCEPT ![t] = "stamp"]
    /\ UNCHANGED <<logger_vars, main_vars, threads, bool_seeded_b, rand_state,
                   srand_calls, clock, mock_calls, l_mock_sensor_tv0_st,
                   l_mock_sensor_tv_st, l_sample_st, clock_failed, returned>>

\* _bool_seeded_b = true
MockSetSeeded(t) ==
    /\ mock_pc[t] = "set"
    /\ bool_seeded_b' = TRUE
    /\ mock_pc' = [mock_pc EXCEPT ![t] = "stamp"]
    /\ UNCHANGED <<logger_vars, main_vars, threads, rand_state, srand_calls, clock,
                   mock_calls, l_mock_sensor_tv0_st, l_mock_sensor_tv_st,
                   l_sample_st, clock_failed, returned>>

\* (void)gettimeofday(&tv, NULL); l_sample_st.timestamp_ms = ...
MockTimestamp(t) ==
    /\ mock_pc[t] = "stamp"
    /\ \E ok \in BOOLEAN :
          LET tv == gettimeofday(l_mock_sensor_tv_st[t], clock, ok)
          IN  /\ l_mock_sensor_tv_st' = [l_mock_sensor_tv_st EXCEPT ![t] = tv]
              /\ clock_failed' = [clock_failed EXCEPT ![t] = ~ok]
              /\ l_sample_st' = [l_sample_st EXCEPT
                                    ![t].timestamp_ms = TimestampMs(tv)]
    /\ mock_pc' = [mock_pc EXCEPT ![t] = "axes"]
    /\ UNCHANGED <<logger_vars, main_vars, threads, bool_seeded_b, rand_state,
                   srand_calls, clock, mock_calls, l_mock_sensor_tv0_st,
                   returned>>

\* the loop over the three axes, and return l_sample_st
MockAxes(t) ==
    /\ mock_pc[t] = "axes"
    /\ LET sample == [l_sample_st[t] EXCEPT
                         !.acc_x = AxisValue(rand(rand_state, 0)),
                         !.acc_y = AxisValue(rand(rand_state, 1)),
                         !.acc_z = AxisValue(rand(rand_state, 2))]
       IN  /\ l_sample_st' = [l_sample_st EXCEPT ![t] = sample]
           /\ returned' = Append(returned,
                             [thread |-> t,
                              sample |-> sample,
                              error |-> FALSE,
                              clock_failed |-> clock_failed[t],
                              tv |-> l_mock_sensor_tv_st[t],
                              rand |-> << rand(rand_state, 0),
                                          rand(rand_state, 1),
                                          rand(rand_state, 2) >>])
    /\ rand_state' = AfterRand(rand_state, 3)
    /\ mock_pc' = [mock_pc EXCEPT ![t] = "idle"]
    /\ UNCHANGED <<logger_vars, main_vars, threads, bool_seeded_b, srand_calls, clock,
                   mock_calls, l_mock_sensor_tv0_st, l_mock_sensor_tv_st,
                   clock_failed>>

MockNext ==
    \/ ClockTick
    \/ \E t \in threads : MockCall(t)
    \/ \E t \in threads : MockSeed(t)
    \/ \E t \in threads : MockSetSeeded(t)
    \/ \E t \in threads : MockTimestamp(t)
    \/ \E t \in threads : MockAxes(t)

\* one thread, the clock from its first value on
SpecMock == MockInit({1}, 1) /\ [][MockNext]_vars

\* two threads, the clock from its value before the last on
SpecMockThreads == MockInit({1, 2}, Len(ClockValues) - 1) /\ [][MockNext]_vars

(***************************************************************************)
(* main.c: the driver, one call per step.  The sample generation number i  *)
(* that get_mock_sensor_data returns is sample i of the stream "mock".     *)
(***************************************************************************)

MAIN_NUM_SAMPLES_U32 == 200

MainInit ==
    /\ gl_sensor_logger_buffer_U8a = [i \in Slots |-> ZeroSample]
    /\ gl_sensor_logger_head_index_U32 = 0
    /\ gl_sensor_logger_entry_count_U32 = 0
    /\ call = "none"
    /\ ret = 0
    /\ printf_args = <<>>
    /\ out = <<>>
    /\ slots_read = <<>>
    /\ stream = "mock"
    /\ hist = <<>>
    /\ index_arg = 0
    /\ entry_ptr = NULL
    /\ ContextsIdle
    /\ SourceUnused
    /\ main_pc = "init"
    /\ main_loop_index_U32 = 0
    /\ main_sample_st = ZeroSample
    /\ main_trace = << >>
    /\ exit_status = -1

source_vars == <<threads, clock, mock_pc, l_mock_sensor_tv0_st,
                 l_mock_sensor_tv_st, l_sample_st, clock_failed, returned>>

\* (void)init_sensor_logger()
MainInitLogger ==
    /\ main_pc = "init"
    /\ init_sensor_logger
    /\ call' = "init"
    /\ hist' = <<>>
    /\ main_trace' = Append(main_trace, "init_sensor_logger")
    /\ main_pc' = "srand"
    /\ NoEntryReturned
    /\ UNCHANGED <<stream, conc_vars, mock_vars, main_loop_index_U32,
                   main_sample_st, exit_status>>

\* srand((unsigned)time(NULL)); l_loop_index_U32 = 0U and the first test of
\* the loop
MainSrand ==
    /\ main_pc = "srand"
    /\ rand_state' = srand(ClockValues[clock].tv_sec)
    /\ srand_calls' = srand_calls + 1
    /\ main_loop_index_U32' = 0
    /\ main_pc' = IF 0 < MAIN_NUM_SAMPLES_U32 THEN "get" ELSE "print"
    /\ UNCHANGED <<logger_vars, source_vars, bool_seeded_b, mock_calls,
                   main_sample_st, main_trace, exit_status>>

\* (a bug: every call returns the sample of generation 0)
MainGetSample_SameSample ==
    /\ main_pc = "get"
    /\ main_sample_st' = StreamSample(stream, 0)
    /\ bool_seeded_b' = TRUE
    /\ srand_calls' = IF bool_seeded_b THEN srand_calls ELSE srand_calls + 1
    /\ rand_state' =
          AfterRand(IF bool_seeded_b THEN rand_state
                    ELSE srand(Xor(ClockValues[clock].tv_sec,
                                   ClockValues[clock].tv_usec)), 3)
    /\ mock_calls' = mock_calls + 1
    /\ main_trace' = Append(main_trace, "get_mock_sensor_data")
    /\ main_pc' = "log"
    /\ UNCHANGED <<logger_vars, source_vars, main_loop_index_U32, exit_status>>

\* l_sample_st = get_mock_sensor_data(): the call seeds the generator if it
\* is the first, and draws three values
MainGetSample ==
    /\ main_pc = "get"
    /\ main_sample_st' = StreamSample(stream, main_loop_index_U32)
    /\ bool_seeded_b' = TRUE
    /\ srand_calls' = IF bool_seeded_b THEN srand_calls ELSE srand_calls + 1
    /\ rand_state' =
          AfterRand(IF bool_seeded_b THEN rand_state
                    ELSE srand(Xor(ClockValues[clock].tv_sec,
                                   ClockValues[clock].tv_usec)), 3)
    /\ mock_calls' = mock_calls + 1
    /\ main_trace' = Append(main_trace, "get_mock_sensor_data")
    /\ main_pc' = "log"
    /\ UNCHANGED <<logger_vars, source_vars, main_loop_index_U32, exit_status>>

\* (void)log_sensor_data(&l_sample_st); ++l_loop_index_U32 and the test of
\* the loop
MainLogSample ==
    /\ main_pc = "log"
    /\ log_sensor_data(Ptr(main_sample_st))
    /\ call' = "log"
    /\ hist' = Append(hist, main_sample_st)
    /\ main_trace' = Append(main_trace, "log_sensor_data")
    /\ main_loop_index_U32' = main_loop_index_U32 + 1
    /\ main_pc' = IF main_loop_index_U32 + 1 < MAIN_NUM_SAMPLES_U32
                  THEN "get" ELSE "print"
    /\ NoEntryReturned
    /\ UNCHANGED <<stream, conc_vars, mock_vars, main_sample_st, exit_status>>

\* (void)print_log()
MainPrintLog ==
    /\ main_pc = "print"
    /\ print_log
    /\ call' = "print"
    /\ main_trace' = Append(main_trace, "print_log")
    /\ main_pc' = "return"
    /\ NoEntryReturned
    /\ UNCHANGED <<stream, hist, conc_vars, mock_vars, main_loop_index_U32,
                   main_sample_st, exit_status>>

\* return 0
MainReturn ==
    /\ main_pc = "return"
    /\ exit_status' = 0
    /\ main_pc' = "done"
    /\ UNCHANGED <<logger_vars, mock_vars, main_loop_index_U32,
                   main_sample_st, main_trace>>

MainNext ==
    \/ MainInitLogger \/ MainSrand \/ MainGetSample \/ MainLogSample
    \/ MainPrintLog \/ MainReturn

SpecMain == MainInit /\ [][MainNext]_vars

(* ------------------------------- claims -------------------------------- *)

head  == gl_sensor_logger_head_index_U32
count == gl_sensor_logger_entry_count_U32
slot  == gl_sensor_logger_buffer_U8a

\* the samples a print_log must emit: the last min(Len(h), N) of h, oldest first
Retained(h) == SubSeq(h, Len(h) - Min(Len(h), N) + 1, Len(h))

NonDecreasing(ts) == \A k \in 1 .. (Len(ts) - 1) : ts[k] <= ts[k + 1]

\* C1: a print_log emits exactly the last min(k, N) samples appended since
\* the most recent init_sensor_logger, oldest first (k = number of valid
\* appends since that init); once more than N distinct samples were
\* appended, none of the first k - N is emitted.
C1_PrintEmitsRetainedInOrder ==
    call = "print" =>
        /\ Len(printf_args) = Min(Len(hist), N)
        /\ \A k \in 1 .. Len(printf_args) :
              printf_args[k] = PrintfArgs(Retained(hist)[k])
        /\ (stream = "ramp" /\ Len(hist) > N) =>
              \A j \in 1 .. (Len(hist) - N) :
                 \A k \in 1 .. Len(printf_args) :
                    printf_args[k] # PrintfArgs(hist[j])

\* print_log called after N + 5 appends of distinct samples
W1_PrintAfterOverwrite ==
    call = "print" /\ stream = "ramp" /\ Len(hist) = N + 5 /\ Len(out) = N

\* C2: a log_sensor_data call with a non-NULL sample leaves
\* count = min(count_before + 1, N), and count never exceeds N.
C2_CountSaturatesAtN ==
    /\ [](count <= N)
    /\ [][call' = "log" => count' = Min(count + 1, N)]_vars

\* a valid append made when the buffer was already full
W2_AppendWhenFull ==
    call = "log" /\ Len(hist) > N /\ count = N

\* C3: after init_sensor_logger and m valid appends, count = min(m, N) and
\* head = m mod N; with samples numbered 0, 1, ... m = 128 gives head 0 and
\* m = 133 gives head 5, the oldest retained sample number 5, the newest 132.
C3_CountAndHeadAfterAppends ==
    /\ count = Min(Len(hist), N)
    /\ head = Len(hist) % N
    /\ (Len(hist) = 128) => (count = 128 /\ head = 0)
    /\ (Len(hist) = 133 /\ stream = "ramp") =>
          /\ count = 128
          /\ head = 5
          /\ slot[5].timestamp_ms = 5
          /\ slot[4].timestamp_ms = 132
          /\ \A i \in Slots : slot[i].timestamp_ms >= 5
                                 /\ slot[i].timestamp_ms <= 132

\* 133 appends of the samples numbered 0 .. 132
W3_ScenarioB ==
    Len(hist) = 133 /\ stream = "ramp" /\ head = 5 /\ count = 128

\* C4: if the samples appended since the last init_sensor_logger had
\* non-decreasing timestamp_ms, the timestamps print_log emits are
\* non-decreasing.
C4_PrintPreservesTimestampOrder ==
    (call = "print" /\ NonDecreasing([k \in 1 .. Len(hist) |-> hist[k].timestamp_ms]))
        => NonDecreasing([k \in 1 .. Len(printf_args) |-> printf_args[k][1]])

\* print_log of an overwritten buffer whose input had ties and increases
W4_PrintOverwrittenMonotone ==
    /\ call = "print"
    /\ stream = "mock"
    /\ Len(hist) = N + 6
    /\ Len(printf_args) = N
    /\ printf_args[1][1] < printf_args[N][1]
    /\ printf_args[1][1] = printf_args[2][1]

\* C5: log_sensor_data(NULL) returns -1 and leaves head, count and every
\* slot as they were.
C5_NullAppendRejected ==
    [][call' = "log_null" =>
          /\ ret' = -1
          /\ head' = head
          /\ count' = count
          /\ \A i \in Slots : slot'[i] = slot[i]]_vars

\* log_sensor_data(NULL) called on an overwritten buffer
W5_NullAppendOnFullBuffer ==
    call = "log_null" /\ ret = -1 /\ count = N /\ head = 5 /\ Len(hist) = N + 5
\* C6: a log_sensor_data call with a non-NULL sample returns 0, stores the
\* sample in the slot at the pre-call head, sets head to (head + 1) mod N and
\* leaves the other slots unchanged; when count was N, the overwritten slot
\* held the oldest retained sample and count stays N.
C6_AppendWritesSlotAtHead ==
    [][call' = "log" =>
          /\ ret' = 0
          /\ slot'[head] = hist'[Len(hist')]
          /\ head' = (head + 1) % N
          /\ \A i \in Slots \ {head} : slot'[i] = slot[i]
          /\ (count = N) =>
                /\ count' = N
                /\ slot[head] = hist[Len(hist) - N + 1]]_vars

\* a valid append that overwrote the oldest sample of a full buffer
W6_AppendOverwroteOldest ==
    /\ call = "log"
    /\ stream = "ramp"
    /\ Len(hist) = N + 6
    /\ head = 6
    /\ slot[5] = hist[N + 6]
    /\ slot[5].timestamp_ms = N + 5

\* C7: init_sensor_logger returns 0 and leaves head = 0, count = 0 and every
\* slot zeroed, from every state; called twice in a row, the second call
\* leaves the state of the first.
C7_InitResetsAndIsIdempotent ==
    [][call' = "init" =>
          /\ ret' = 0
          /\ head' = 0
          /\ count' = 0
          /\ \A i \in Slots : slot'[i] = ZeroSample
          /\ (call = "init") => (store' = store /\ ret' = ret)]_vars

\* a state init_sensor_logger has left
W7_AfterInit ==
    call = "init" /\ ret = 0 /\ head = 0 /\ count = 0 /\ hist = <<>>

\* C8: on a store with count = 0, print_log emits nothing and returns 0.
C8_PrintOfEmptyStore ==
    (call = "print" /\ count = 0) =>
        (out = <<>> /\ printf_args = <<>> /\ ret = 0)

\* print_log called on an empty store
W8_PrintedEmptyStore ==
    call = "print" /\ count = 0 /\ hist = <<>> /\ ret = 0

\* C9: print_log changes neither head nor count nor any slot, and a
\* print_log directly after a print_log emits the same and returns the same.
C9_PrintIsReadOnlyAndRestartable ==
    [][call' = "print" =>
          /\ head' = head
          /\ count' = count
          /\ \A i \in Slots : slot'[i] = slot[i]
          /\ (call = "print") =>
                (out' = out /\ printf_args' = printf_args /\ ret' = ret)]_vars

\* print_log has printed an overwritten buffer
W9_PrintedFullBuffer ==
    call = "print" /\ count = N /\ head = 7 /\ Len(out) = N /\ ret > 0

\* the number of characters of the lines lo .. hi
RECURSIVE Chars(_, _, _)
Chars(lines, lo, hi) ==
    IF lo > hi THEN 0
    ELSE IF lo = hi THEN Len(lines[lo])
         ELSE Chars(lines, lo, (lo + hi) \div 2)
                 + Chars(lines, ((lo + hi) \div 2) + 1, hi)

\* C10: print_log emits exactly count lines, one per valid entry, the k-th
\* being "timestamp_ms,acc_x,acc_y,acc_z\n" of the k-th entry read, and
\* returns the number of characters of these lines; the single sample
\* {1000, 1.0, 2.0, 3.0} gives the one line "1000,1.000000,2.000000,3.000000\n".
C10_PrintEmitsOneLinePerEntry ==
    call = "print" =>
        /\ Len(out) = count
        /\ Len(slots_read) = count
        /\ \A j, k \in 1 .. count : j # k => slots_read[j] # slots_read[k]
        /\ \A k \in 1 .. count :
              LET entry == slot[slots_read[k]]
              IN  out[k] = FormatUnsigned(entry.timestamp_ms) \o ","
                             \o FormatFloat(entry.acc_x) \o ","
                             \o FormatFloat(entry.acc_y) \o ","
                             \o FormatFloat(entry.acc_z) \o "\n"
        /\ ret = Chars(out, 1, Len(out))
        /\ (hist = <<Sample(1000, 1000000, 2000000, 3000000)>>) =>
              (out = <<"1000,1.000000,2.000000,3.000000\n">> /\ ret = 32)

\* print_log of the single sample of Scenario C
W10_ScenarioC ==
    /\ call = "print"
    /\ hist = <<Sample(1000, 1000000, 2000000, 3000000)>>
    /\ out = <<"1000,1.000000,2.000000,3.000000\n">>

\* C11: with ENTER_CRITICAL / EXIT_CRITICAL one mutual-exclusion region,
\* every access of the producer's log_sensor_data and of the consumer's
\* print_log to head, count and the buffer is made inside the region; each
\* print_log emits the store of one instant, the one at which it entered
\* the region, and outside the producer's region the store holds every
\* completed append, whole.
C11_RegionSerializesStore ==
    /\ (producer_pc \in {"write", "advance", "count", "exit", "init_head",
                          "init_count", "init_memset", "init_exit"})
          => lock = "producer"
    /\ (consumer_pc \in {"check", "start", "loop", "exit"}) => lock = "consumer"
    /\ (lock # "producer") =>
          /\ count = Min(Len(hist), N)
          /\ head = Len(hist) % N
          /\ \A j \in 1 .. count :
                slot[(head + N - j) % N] = hist[Len(hist) - j + 1]
    /\ (call = "print" /\ consumer_pc = "idle") =>
          /\ Len(printf_args) = Min(Len(hist_at_enter), N)
          /\ Len(out) = Len(printf_args)
          /\ \A k \in 1 .. Len(printf_args) :
                printf_args[k] =
                   PrintfArgs(Retained(hist_at_enter)[k])

\* a print_log of an overwritten buffer has returned while the producer
\* was waiting to enter the region
W11_PrintedWhileProducerWaited ==
    /\ call = "print"
    /\ consumer_pc = "idle"
    /\ producer_pc = "enter"
    /\ Len(hist_at_enter) = N + 3
    /\ Len(hist) = N + 3
    /\ Len(printf_args) = N

\* C12: across any sequence of get_mock_sensor_data calls of one thread,
\* srand is called exactly once, on the first call, and on no later call.
C12_SeededOnceOnFirstCall ==
    /\ [](srand_calls = IF mock_calls = 0 \/ (mock_calls = 1 /\ mock_pc[1] = "seed")
                        THEN 0 ELSE 1)
    /\ [][srand_calls' # srand_calls => mock_calls = 1]_vars

\* three calls have returned
W12_ThreeCallsOneSeeding ==
    /\ threads = {1}
    /\ Len(returned) = 3
    /\ srand_calls = 1

\* C13: two threads calling get_mock_sensor_data concurrently before seeding
\* has completed still seed exactly once: srand is never called twice.
C13_ConcurrentCallersSeedOnce ==
    srand_calls <= 1

\* C14: a call whose gettimeofday failed signals an error to its caller and
\* returns no sample with a zero timestamp_ms in place of the time.
C14_ClockFailureIsSignalled ==
    \A i \in DOMAIN returned :
        returned[i].clock_failed =>
            /\ returned[i].error
            /\ returned[i].sample.timestamp_ms # U32(0, 0)

\* C15: the timestamp_ms returned (a uint32_t) equals the wall-clock time in
\* milliseconds since the epoch, tv_sec * 1000 + tv_usec / 1000, for every
\* value the clock gave.
C15_TimestampIsEpochMilliseconds ==
    \A i \in DOMAIN returned :
        ~returned[i].clock_failed =>
            Milliseconds(returned[i].tv.tv_sec, returned[i].tv.tv_usec)
               = << returned[i].sample.timestamp_ms.lo,
                    returned[i].sample.timestamp_ms.hi, 0 >>

U32LessEq(a, b) == a.hi < b.hi \/ (a.hi = b.hi /\ a.lo <= b.lo)

\* C16: of two successive calls (the clock never goes backwards, and gave
\* the time to both) the second timestamp_ms is at least the first, and
\* every timestamp_ms the clock gave is greater than 0.
C16_TimestampsNonDecreasingAndPositive ==
    \A i \in DOMAIN returned :
        ~returned[i].clock_failed =>
            /\ returned[i].sample.timestamp_ms # U32(0, 0)
            /\ (i > 1 /\ ~returned[i - 1].clock_failed) =>
                  U32LessEq(returned[i - 1].sample.timestamp_ms,
                            returned[i].sample.timestamp_ms)

\* the three axes of a returned sample
Axes(s) == << s.acc_x, s.acc_y, s.acc_z >>

\* C17 as stated: every axis value lies in [-16.0, +16.0], and the endpoints
\* are attained only at r = 0 and r = RAND_MAX.
C17_RangeWithEndpointsOnlyAtExtremes ==
    \A i \in DOMAIN returned : \A a \in 1 .. 3 :
        LET v == Scaled(Axes(returned[i].sample)[a])
            r == returned[i].rand[a]
        IN  /\ 0 - Sixteen <= v /\ v <= Sixteen
            /\ (v = 0 - Sixteen) => r = 0
            /\ (v = Sixteen) => r = RAND_MAX

\* C17 (amended): every axis value lies in [-16.0, +16.0]; r = 0 gives -16.0
\* and r = RAND_MAX gives +16.0 (as do, by rounding, values of r next to
\* them).
C17_RangeWithEndpointsAtExtremes ==
    \A i \in DOMAIN returned : \A a \in 1 .. 3 :
        LET v == Scaled(Axes(returned[i].sample)[a])
            r == returned[i].rand[a]
        IN  /\ 0 - Sixteen <= v /\ v <= Sixteen
            /\ (r = 0) => v = 0 - Sixteen
            /\ (r = RAND_MAX) => v = Sixteen

\* a sample drawn from r = RAND_MAX - 1, RAND_MAX, 0
W17_SampleAtBothEndpoints ==
    \E i \in DOMAIN returned :
        /\ returned[i].rand = << RAND_MAX - 1, RAND_MAX, 0 >>
        /\ Scaled(returned[i].sample.acc_x) = Sixteen
        /\ Scaled(returned[i].sample.acc_y) = Sixteen
        /\ Scaled(returned[i].sample.acc_z) = 0 - Sixteen

\* C18: get_sensor_logger_buffer_entry(index) returns NULL exactly when
\* index >= N and otherwise a pointer to slot index, a slot of the buffer;
\* it changes neither head nor count nor any slot.
C18_GetEntryIsBoundsChecked ==
    [][call' = "get_entry" =>
          /\ (entry_ptr' = NULL) <=> (index_arg' >= N)
          /\ (index_arg' < N) =>
                (entry_ptr' = SlotPtr(index_arg') /\ entry_ptr'.slot \in Slots)
          /\ head' = head
          /\ count' = count
          /\ \A i \in Slots : slot'[i] = slot[i]]_vars

\* the accessor was called with the first index past the buffer
W18_GetEntryAtCapacity ==
    call = "get_entry" /\ index_arg = N /\ entry_ptr = NULL /\ count = N

\* C19: in every reachable state the start index print_log uses equals
\* (head + N - count) mod N, and the i-th entry print_log emits is read from
\* slot (start + i) mod N, i = 0 .. count - 1.
C19_StartIndexIsWrapSafe ==
    /\ StartIndex(count, head) = (head + N - count) % N
    /\ (call = "print") =>
          /\ Len(slots_read) = count
          /\ \A k \in 1 .. count :
                slots_read[k] = (((head + N - count) % N) + (k - 1)) % N

\* print_log of a half-filled buffer
W19_PrintPartiallyFilled ==
    /\ call = "print"
    /\ count = 64
    /\ head = 64
    /\ slots_read[1] = 0
    /\ slots_read[64] = 63

\* C20: whenever count > 0, the oldest retained sample is stored at slot
\* (head - count) mod N if count < N and at slot head if count = N, and the
\* newest retained sample at slot (head + N - 1) mod N.
C20_OldestAndNewestSlots ==
    (count > 0) =>
        /\ slot[IF count < N THEN (head + N - count) % N ELSE head]
              = hist[Len(hist) - count + 1]
        /\ slot[(head + N - 1) % N] = hist[Len(hist)]

\* an overwritten buffer of distinct samples: oldest number 5, newest 132
W20_OldestAfterOverwrite ==
    /\ stream = "ramp"
    /\ Len(hist) = N + 5
    /\ count = N
    /\ slot[head].timestamp_ms = 5
    /\ slot[(head + N - 1) % N].timestamp_ms = N + 4

\* C21: in every state between calls head is in [0, N) and count in [0, N]
\* (the index log_sensor_data writes at is inside the buffer); whenever
\* count < N, head = count; head differs from count only when count = N.
C21_HeadAndCountRanges ==
    /\ head \in 0 .. N - 1
    /\ count \in 0 .. N
    /\ head \in DOMAIN gl_sensor_logger_buffer_U8a
    /\ (count < N) => head = count
    /\ (head # count) => count = N

\* an append onto a full buffer has left head = 5 with count = N
W21_HeadDiffersWhenFull ==
    /\ call = "log"
    /\ count = N
    /\ head = 5
    /\ Len(hist) = N + 5

\* the slots that hold the count valid entries
ValidSlots == {(head + N - j) % N : j \in 1 .. count}

\* C22: every print_log ends after exactly count iterations of its loop; it
\* reads count pairwise-distinct slots of the buffer, from the oldest index
\* on, advancing by one (mod N) per iteration, each slot one of the count
\* valid entries.
C22_PrintReadsCountDistinctSlots ==
    (call = "print") =>
        /\ Len(slots_read) = count
        /\ Len(out) = count
        /\ \A k \in 1 .. Len(slots_read) :
              /\ slots_read[k] \in Slots
              /\ slots_read[k] \in ValidSlots
              /\ slots_read[k] = ((head + N - count) + (k - 1)) % N
              /\ k > 1 => slots_read[k] = (slots_read[k - 1] + 1) % N
        /\ \A k, l \in 1 .. Len(slots_read) :
              (k # l) => slots_read[k] # slots_read[l]

\* a print of a full buffer whose oldest entry is inside the buffer: the
\* reads wrap from slot N - 1 to slot 0
W22_PrintWrappedAround ==
    /\ call = "print"
    /\ count = N
    /\ head = 5
    /\ Len(slots_read) = N
    /\ slots_read[1] = 5
    /\ slots_read[N] = 4

\* C23: on every control path of init_sensor_logger, log_sensor_data and
\* print_log, ENTER_CRITICAL and EXIT_CRITICAL are balanced: a context that
\* has returned does not hold the region (print_log's early return
\* included); a context executes EXIT_CRITICAL only while it holds the
\* region, and the NULL return of log_sensor_data neither enters nor exits;
\* a context at ENTER_CRITICAL does not hold the region already.
C23_CriticalSectionBalanced ==
    /\ [](/\ (producer_pc = "idle") => lock # "producer"
          /\ (consumer_pc = "idle") => lock # "consumer"
          /\ (producer_pc \in {"exit", "init_exit"}) => lock = "producer"
          /\ (consumer_pc \in {"check", "exit"}) => lock = "consumer"
          /\ (producer_pc = "return_error") => lock # "producer"
          /\ (producer_pc \in {"enter", "init_enter"}) => lock # "producer"
          /\ (consumer_pc = "enter") => lock # "consumer")
    /\ [][/\ (lock # "free" /\ lock' = "free") =>
                \/ (lock = "producer" /\ producer_pc' = "idle")
                \/ (lock = "consumer" /\ consumer_pc' = "idle")
          /\ (lock = "free" /\ lock' # "free") =>
                \/ (lock' = "producer" /\ producer_pc \in {"enter", "init_enter"})
                \/ (lock' = "consumer" /\ consumer_pc = "enter")
          /\ (lock # "free" /\ lock' # "free") => lock' = lock
          /\ (producer_pc' # producer_pc
                 /\ "return_error" \in {producer_pc, producer_pc'})
                => lock' = lock]_vars

\* print_log has left the region by its early return on an empty store
\* while log_sensor_data(NULL) is returning -1
W23_EarlyReturnsLeaveRegionFree ==
    /\ call = "print"
    /\ consumer_pc = "idle"
    /\ count = 0
    /\ ret = 0
    /\ producer_pc = "return_error"
    /\ lock = "free"

\* the calls of a whole run of main, in order
DriverCalls ==
    << "init_sensor_logger" >>
       \o [k \in 1 .. 2 * 200 |->
              IF k % 2 = 1 THEN "get_mock_sensor_data" ELSE "log_sensor_data"]
       \o << "print_log" >>

\* C24: main calls init_sensor_logger once, then 200 times
\* get_mock_sensor_data followed by log_sensor_data of that sample, then
\* print_log once; that print_log emits exactly 128 lines, the samples of
\* generation numbers 72 .. 199 in generation order; the store ends with
\* count = 128 and head = 72, and main returns 0.
C24_DriverRun ==
    /\ Len(main_trace) <= Len(DriverCalls)
    /\ main_trace = SubSeq(DriverCalls, 1, Len(main_trace))
    /\ (main_pc = "log") => main_sample_st = StreamSample("mock", main_loop_index_U32)
    /\ (main_pc \in {"return", "done"}) =>
          /\ main_trace = DriverCalls
          /\ Len(out) = 128
          /\ Len(printf_args) = 128
          /\ \A k \in 1 .. 128 :
                /\ printf_args[k] = PrintfArgs(StreamSample("mock", 72 + (k - 1)))
                /\ out[k] = LOG_PRINTF(printf_args[k])
          /\ count = 128
          /\ head = 72
    /\ (main_pc = "done") => exit_status = 0

\* main has returned after its print_log
W24_MainReturned ==
    /\ main_pc = "done"
    /\ Len(hist) = 200
    /\ Len(out) = 128
    /\ exit_status = 0

====
